---- MODULE Spec2Model ----
(***************************************************************************)
(* Student CRUD service (Elysia route handlers over a MongoDB collection)  *)
(* and the React query coordinator that drives it.                         *)
(*                                                                         *)
(* Text values are tuples of one-character strings, so that substring and  *)
(* regular-expression matching can be computed.  ObjectIds are the         *)
(* naturals 1, 2, ...; BadId stands for a string that is no ObjectId.      *)
(***************************************************************************)
EXTENDS Integers, Sequences, FiniteSets, TLC

\* ------------------------------------------------------------------ bounds
MaxId == 2            \* at most this many documents are ever inserted
MaxRecords == 12      \* largest collection the read requests are run against
MaxPage == 3          \* largest page parameter the API clients send
MaxLimit == 5         \* largest limit parameter the API clients send

Slots == {1, 2}       \* requests the server can be handling at once

\* ------------------------------------------------------------ text domain
Absent == <<"undefined">>     \* a field the JSON body does not carry
Lower(c) == CASE c = "A" -> "a" [] c = "N" -> "n" [] c = "S" -> "s" [] OTHER -> c
IsSpace(c) == c = " "

\* decodeURIComponent over URL tokens: a token is a plain character or one
\* percent escape; a lone "%" is a malformed escape (URIError).
URIError == <<"URIError">>
DecodeToken(t) == CASE t = "%5C" -> "\\" [] t = "%20" -> " " [] t = "%25" -> "%" [] OTHER -> t
decodeURIComponent(text) ==
    IF \E i \in 1..Len(text) : text[i] = "%" THEN URIError
    ELSE [i \in 1..Len(text) |-> DecodeToken(text[i])]

\* new RegExp(searchText, 'i'): the pattern as a sequence of atoms.
\* An atom is <<kind, char>>; a pattern ending in a lone backslash is a
\* SyntaxError.
RECURSIVE Atoms(_)
Atoms(p) ==
    IF p = <<>> THEN <<>>
    ELSE IF p[1] = "\\"
         THEN IF Len(p) = 1 THEN <<<<"error", "">>>>
              ELSE <<(CASE p[2] = "s" -> <<"space", "">>
                        [] p[2] = "S" -> <<"nonspace", "">>
                        [] OTHER -> <<"lit", p[2]>>)>> \o Atoms(SubSeq(p, 3, Len(p)))
         ELSE <<(IF p[1] = "." THEN <<"any", "">> ELSE <<"lit", p[1]>>)>>
              \o Atoms(Tail(p))

RegExpThrows(p) == \E i \in 1..Len(Atoms(p)) : Atoms(p)[i][1] = "error"

AtomMatches(a, c) ==
    CASE a[1] = "any" -> TRUE
      [] a[1] = "space" -> IsSpace(c)
      [] a[1] = "nonspace" -> ~IsSpace(c)
      [] a[1] = "lit" -> Lower(a[2]) = Lower(c)
      [] OTHER -> FALSE

\* { field: new RegExp(searchText, 'i') }: the pattern matches somewhere in
\* the field; a missing field matches nothing.
RegexMatch(p, field) ==
    /\ field # Absent
    /\ LET as == Atoms(p) IN
       \E i \in 0..(Len(field) - Len(as)) :
          \A k \in 1..Len(as) : AtomMatches(as[k], field[i + k])

\* the $or filter of the search route
searchQuery(p, doc) ==
    \/ RegexMatch(p, doc.student_id)
    \/ RegexMatch(p, doc.firstname)
    \/ RegexMatch(p, doc.lastname)
    \/ RegexMatch(p, doc.nickname)

\* ---------------------------------------------------------- the collection
BadId == 0
NaN == -99            \* Number(x) of an absent or non-numeric parameter

VARIABLES
    \* the service
    students,              \* the collection, in natural (insertion) order
    uniqueIndex,           \* "pending", "created" or "failed"
    nextId,                \* the next ObjectId the store generates
    lastId,                \* the last ObjectId the model lets it generate
    reqs,                  \* the requests the route handlers are working on
    \* the React component App
    studentList,           \* useState students
    searchText, isLoading, pagination, formData, selectedStudent, isModalOpen,
    debouncedSearchText,   \* useDebounce's state
    timer,                 \* useDebounce's pending timeout
    dialog,                \* the delete confirmation handleDelete awaits
    calls,                 \* what the component awaits from each request
    mutations,             \* POST, PUT and DELETE requests sent so far
    events,                \* what the operator has done so far
    hist                   \* history of the reads issued and applied

serverVars == <<students, uniqueIndex, nextId, lastId, reqs>>
clientVars == <<studentList, searchText, isLoading, pagination, formData, selectedStudent,
                isModalOpen, debouncedSearchText, timer, dialog, calls, mutations, events,
                hist>>
vars == <<serverVars, clientVars>>

Doc(id, body) ==
    [_id |-> id, student_id |-> body.student_id, firstname |-> body.firstname,
     lastname |-> body.lastname, nickname |-> body.nickname]

RECURSIVE Filter(_, _)
Filter(docs, p) ==
    IF docs = <<>> THEN <<>>
    ELSE (IF searchQuery(p, Head(docs)) THEN <<Head(docs)>> ELSE <<>>)
         \o Filter(Tail(docs), p)

Min(a, b) == IF a < b THEN a ELSE b
Abs(n) == IF n < 0 THEN 0 - n ELSE n

\* cursor.skip(skip).limit(limit).toArray(); a negative limit is a request
\* for |limit| documents in one batch
SkipLimit(docs, skip, limit) ==
    SubSeq(docs, skip + 1, Min(Len(docs), skip + Abs(limit)))

\* Number(query?.x) || dflt
NumberOr(x, dflt) == IF x = NaN \/ x = 0 THEN dflt ELSE x

\* a page count that rounds down: Math.floor(total / limit)
FloorDiv(total, limit) ==
    IF limit > 0 THEN total \div limit ELSE 0 - (total \div (0 - limit))

\* Math.ceil(total / limit)
CeilDiv(total, limit) ==
    IF limit > 0
    THEN (IF total % limit = 0 THEN total \div limit ELSE (total \div limit) + 1)
    ELSE 0 - (total \div (0 - limit))

\* findOne({ student_id })
HasKey(docs, key) == \E i \in 1..Len(docs) : docs[i].student_id = key
\* findOne({ student_id, _id: { $ne: id } })
HasKeyOther(docs, key, id) ==
    \E i \in 1..Len(docs) : docs[i].student_id = key /\ docs[i]._id # id
HasId(docs, id) == \E i \in 1..Len(docs) : docs[i]._id = id

\* { $set: body }: the fields the body carries replace the document's
SetField(old, new) == IF new = Absent THEN old ELSE new
SetBody(doc, body) ==
    [_id |-> doc._id,
     student_id |-> SetField(doc.student_id, body.student_id),
     firstname |-> SetField(doc.firstname, body.firstname),
     lastname |-> SetField(doc.lastname, body.lastname),
     nickname |-> SetField(doc.nickname, body.nickname)]

\* a delete that empties the collection: deleteMany({})
RemoveEvery(docs, id) == <<>>

RECURSIVE Remove(_, _)
Remove(docs, id) ==
    IF docs = <<>> THEN <<>>
    ELSE (IF Head(docs)._id = id THEN <<>> ELSE <<Head(docs)>>) \o Remove(Tail(docs), id)

\* ------------------------------------------------------ requests, responses
NoBody == [student_id |-> Absent, firstname |-> Absent, lastname |-> Absent,
           nickname |-> Absent]
NoDoc == Doc(BadId, NoBody)
NoPagination == [total |-> 0, page |-> 0, limit |-> 0, totalPages |-> 0]

Response(status, message, doc, docs, pg) ==
    [status |-> status, message |-> message, student |-> doc,
     students |-> docs, pagination |-> pg]
NoResponse == Response(0, "", NoDoc, <<>>, NoPagination)
ErrorResponse(status, message) == Response(status, message, NoDoc, <<>>, NoPagination)

Idle ==
    [op |-> "none", pc |-> "idle", id |-> BadId, body |-> NoBody, text |-> <<>>,
     page |-> NaN, limit |-> NaN, docs |-> <<>>, total |-> -1, gotDocs |-> FALSE,
     resp |-> NoResponse]

Request(op, pc, id, body, text, page, limit) ==
    [Idle EXCEPT !.op = op, !.pc = pc, !.id = id, !.body = body, !.text = text,
                 !.page = page, !.limit = limit]

Done(r, resp) == [r EXCEPT !.pc = "done", !.resp = resp]

UniqueKeys(docs) ==
    \A i, j \in 1..Len(docs) : docs[i].student_id = docs[j].student_id => i = j

\* --------------------------------------------------------------- start-up
\* createIndexes(), called from connectToMongo() after the server already
\* listens: the unique index on student_id exists once this has run, unless
\* the collection already holds a duplicate (the error is only logged).
createIndexes ==
    /\ uniqueIndex = "pending"
    /\ uniqueIndex' = IF UniqueKeys(students) THEN "created" ELSE "failed"
    /\ UNCHANGED <<students, nextId, lastId, reqs, clientVars>>

\* the E11000 duplicate key error of a write under the unique index
DuplicateKey(docs, key, id) == uniqueIndex = "created" /\ HasKeyOther(docs, key, id)

\* a create handler that inserts without looking the student_id up
PostWithoutLookup(s) ==
    /\ reqs[s].op = "POST" /\ reqs[s].pc = "findOne"
    /\ reqs' = [reqs EXCEPT ![s] = [@ EXCEPT !.pc = "insertOne"]]
    /\ UNCHANGED <<students, uniqueIndex, nextId, lastId, clientVars>>

\* ------------------------------------------------------- POST /students
PostFindOne(s) ==
    /\ reqs[s].op = "POST" /\ reqs[s].pc = "findOne"
    /\ reqs' = [reqs EXCEPT ![s] =
          IF HasKey(students, reqs[s].body.student_id)
          THEN Done(@, ErrorResponse(400, "Student ID already exists"))
          ELSE [@ EXCEPT !.pc = "insertOne"]]
    /\ UNCHANGED <<students, uniqueIndex, nextId, lastId, clientVars>>

\* a create that numbers the new record by the size of the collection
PostInsertCounted(s) ==
    /\ reqs[s].op = "POST" /\ reqs[s].pc = "insertOne"
    /\ IF DuplicateKey(students, reqs[s].body.student_id, BadId)
       THEN /\ reqs' = [reqs EXCEPT ![s] = Done(@, ErrorResponse(400, "E11000 duplicate key error"))]
            /\ UNCHANGED <<students, nextId>>
       ELSE /\ nextId <= lastId
            /\ students' = Append(students, Doc(Len(students) + 1, reqs[s].body))
            /\ nextId' = nextId + 1
            /\ reqs' = [reqs EXCEPT ![s] =
                  Done(@, Response(200, "", Doc(Len(students) + 1, reqs[s].body), <<>>,
                                   NoPagination))]
    /\ UNCHANGED <<uniqueIndex, lastId, clientVars>>

PostInsertOne(s) ==
    /\ reqs[s].op = "POST" /\ reqs[s].pc = "insertOne"
    /\ IF DuplicateKey(students, reqs[s].body.student_id, BadId)
       THEN /\ reqs' = [reqs EXCEPT ![s] = Done(@, ErrorResponse(400, "E11000 duplicate key error"))]
            /\ UNCHANGED <<students, nextId>>
       ELSE /\ nextId <= lastId
            /\ students' = Append(students, Doc(nextId, reqs[s].body))
            /\ nextId' = nextId + 1
            /\ reqs' = [reqs EXCEPT ![s] =
                  Done(@, Response(200, "", Doc(nextId, reqs[s].body), <<>>, NoPagination))]
    /\ UNCHANGED <<uniqueIndex, lastId, clientVars>>

\* an update handler that looks for the record before it looks for the key
PutExistenceFirst(s) ==
    /\ reqs[s].op = "PUT" /\ reqs[s].pc = "findOne"
    /\ reqs' = [reqs EXCEPT ![s] =
          IF reqs[s].id = BadId
          THEN Done(@, ErrorResponse(400, "BSONError"))
          ELSE IF ~HasId(students, reqs[s].id)
          THEN Done(@, ErrorResponse(404, "Student not found"))
          ELSE IF HasKeyOther(students, reqs[s].body.student_id, reqs[s].id)
          THEN Done(@, ErrorResponse(400, "Student ID already exists"))
          ELSE [@ EXCEPT !.pc = "updateOne"]]
    /\ UNCHANGED <<students, uniqueIndex, nextId, lastId, clientVars>>

\* an update handler whose lookup does not exclude the record being updated:
\* findOne({ student_id })
PutLookupIncludesSelf(s) ==
    /\ reqs[s].op = "PUT" /\ reqs[s].pc = "findOne"
    /\ reqs' = [reqs EXCEPT ![s] =
          IF reqs[s].id = BadId
          THEN Done(@, ErrorResponse(400, "BSONError"))
          ELSE IF HasKey(students, reqs[s].body.student_id)
          THEN Done(@, ErrorResponse(400, "Student ID already exists"))
          ELSE [@ EXCEPT !.pc = "updateOne"]]
    /\ UNCHANGED <<students, uniqueIndex, nextId, lastId, clientVars>>

\* ---------------------------------------------------- PUT /students/:id
PutFindOne(s) ==
    /\ reqs[s].op = "PUT" /\ reqs[s].pc = "findOne"
    /\ reqs' = [reqs EXCEPT ![s] =
          IF reqs[s].id = BadId
          THEN Done(@, ErrorResponse(400, "BSONError"))
          ELSE IF HasKeyOther(students, reqs[s].body.student_id, reqs[s].id)
          THEN Done(@, ErrorResponse(400, "Student ID already exists"))
          ELSE [@ EXCEPT !.pc = "updateOne"]]
    /\ UNCHANGED <<students, uniqueIndex, nextId, lastId, clientVars>>

PutUpdateOne(s) ==
    /\ reqs[s].op = "PUT" /\ reqs[s].pc = "updateOne"
    /\ LET id == reqs[s].id
           body == reqs[s].body
       IN IF ~HasId(students, id)
          THEN /\ reqs' = [reqs EXCEPT ![s] = Done(@, ErrorResponse(404, "Student not found"))]
               /\ UNCHANGED students
          ELSE LET i == CHOOSE i \in 1..Len(students) : students[i]._id = id
                   new == SetBody(students[i], body)
               IN IF DuplicateKey(students, new.student_id, id)
                  THEN /\ reqs' = [reqs EXCEPT ![s] =
                             Done(@, ErrorResponse(400, "E11000 duplicate key error"))]
                       /\ UNCHANGED students
                  ELSE /\ students' = [students EXCEPT ![i] = new]
                       /\ reqs' = [reqs EXCEPT ![s] =
                             Done(@, Response(200, "", Doc(id, body), <<>>, NoPagination))]
    /\ UNCHANGED <<uniqueIndex, nextId, lastId, clientVars>>

\* a delete handler that does not look at deletedCount
DeleteIgnoresCount(s) ==
    /\ reqs[s].op = "DELETE" /\ reqs[s].pc = "deleteOne"
    /\ LET id == reqs[s].id IN
       IF id = BadId
       THEN /\ reqs' = [reqs EXCEPT ![s] = Done(@, ErrorResponse(500, "BSONError"))]
            /\ UNCHANGED students
       ELSE /\ students' = Remove(students, id)
            /\ reqs' = [reqs EXCEPT ![s] =
                  Done(@, Response(200, "Student deleted successfully", NoDoc, <<>>,
                                   NoPagination))]
    /\ UNCHANGED <<uniqueIndex, nextId, lastId, clientVars>>

\* ------------------------------------------------- DELETE /students/:id
\* Both failures are thrown out of the handler (the framework answers 500).
DeleteOne(s) ==
    /\ reqs[s].op = "DELETE" /\ reqs[s].pc = "deleteOne"
    /\ LET id == reqs[s].id IN
       IF id = BadId
       THEN /\ reqs' = [reqs EXCEPT ![s] = Done(@, ErrorResponse(500, "BSONError"))]
            /\ UNCHANGED students
       ELSE IF ~HasId(students, id)
       THEN /\ reqs' = [reqs EXCEPT ![s] =
                  Done(@, ErrorResponse(500, "Can't find this student to delete."))]
            /\ UNCHANGED students
       ELSE /\ students' = Remove(students, id)
            /\ reqs' = [reqs EXCEPT ![s] =
                  Done(@, Response(200, "Student deleted successfully", NoDoc, <<>>,
                                   NoPagination))]
    /\ UNCHANGED <<uniqueIndex, nextId, lastId, clientVars>>

\* ------------------------- GET /students and GET /students/search/:text
page(r) == NumberOr(r.page, 1)
limit(r) == NumberOr(r.limit, 10)
\* an offset that counts pages from 0: page * limit
SkipFromPageZero(r) == page(r) * limit(r)
skip(r) == (page(r) - 1) * limit(r)

\* what throws before or instead of the two reads
ReadError(r) ==
    IF r.op = "SEARCH" /\ decodeURIComponent(r.text) = URIError THEN "URI malformed"
    ELSE IF r.op = "SEARCH" /\ RegExpThrows(decodeURIComponent(r.text))
         THEN "Invalid regular expression"
    ELSE IF skip(r) < 0 THEN "skip value must be >= 0"
    ELSE ""

\* the documents the route's filter selects, in natural order
Matching(r, docs) ==
    IF r.op = "SEARCH" THEN Filter(docs, decodeURIComponent(r.text)) ELSE docs

Pagination(r, total) ==
    [total |-> total, page |-> page(r), limit |-> limit(r),
     totalPages |-> CeilDiv(total, limit(r))]

\* Promise.all settles once both reads have answered
Settle(r) ==
    IF r.gotDocs /\ r.total >= 0
    THEN Done(r, Response(200, "", NoDoc, r.docs, Pagination(r, r.total)))
    ELSE r

\* students.find(filter).skip(skip).limit(limit).toArray()
Find(s) ==
    /\ reqs[s].op \in {"LIST", "SEARCH"} /\ reqs[s].pc = "reads" /\ ~reqs[s].gotDocs
    /\ LET r == reqs[s] IN
       reqs' = [reqs EXCEPT ![s] =
          IF ReadError(r) # "" THEN Done(r, ErrorResponse(400, ReadError(r)))
          ELSE Settle([r EXCEPT !.gotDocs = TRUE,
                                !.docs = SkipLimit(Matching(r, students), skip(r), limit(r))])]
    /\ UNCHANGED <<students, uniqueIndex, nextId, lastId, clientVars>>

\* students.countDocuments(filter)
CountDocuments(s) ==
    /\ reqs[s].op \in {"LIST", "SEARCH"} /\ reqs[s].pc = "reads" /\ reqs[s].total < 0
    /\ LET r == reqs[s] IN
       reqs' = [reqs EXCEPT ![s] =
          IF ReadError(r) # "" THEN Done(r, ErrorResponse(400, ReadError(r)))
          ELSE Settle([r EXCEPT !.total = Len(Matching(r, students))])]
    /\ UNCHANGED <<students, uniqueIndex, nextId, lastId, clientVars>>

Writes(s) ==
    \/ PostFindOne(s) \/ PostInsertOne(s)
    \/ PutFindOne(s) \/ PutUpdateOne(s)
    \/ DeleteOne(s)

Reads(s) == Find(s) \/ CountDocuments(s)

\* ------------------------------------------------------------ API clients
Keys == {<<"1">>, <<"2">>}
Names == {<<"A", "n">>, <<"b">>}
Bodies == [student_id : Keys, firstname : Names, lastname : {Absent}, nickname : {<<>>}]
Ids == (1..MaxId) \cup {BadId}

\* bodies without a usable firstname: one omits it, one carries ''
Unnamed ==
    {[student_id |-> <<"1">>, firstname |-> Absent, lastname |-> Absent, nickname |-> Absent],
     [student_id |-> <<"2">>, firstname |-> <<>>, lastname |-> Absent, nickname |-> Absent]}

ApiPost(s) ==
    /\ reqs[s].op = "none"
    /\ \E b \in Bodies :
          reqs' = [reqs EXCEPT ![s] = Request("POST", "findOne", BadId, b, <<>>, NaN, NaN)]
    /\ UNCHANGED <<students, uniqueIndex, nextId, lastId, clientVars>>

ApiPostUnnamed(s) ==
    /\ reqs[s].op = "none"
    /\ \E b \in Unnamed :
          reqs' = [reqs EXCEPT ![s] = Request("POST", "findOne", BadId, b, <<>>, NaN, NaN)]
    /\ UNCHANGED <<students, uniqueIndex, nextId, lastId, clientVars>>

ApiPut(s) ==
    /\ reqs[s].op = "none"
    /\ \E id \in Ids, b \in Bodies :
          reqs' = [reqs EXCEPT ![s] = Request("PUT", "findOne", id, b, <<>>, NaN, NaN)]
    /\ UNCHANGED <<students, uniqueIndex, nextId, lastId, clientVars>>

ApiDelete(s) ==
    /\ reqs[s].op = "none"
    /\ \E id \in Ids :
          reqs' = [reqs EXCEPT ![s] = Request("DELETE", "deleteOne", id, NoBody, <<>>, NaN, NaN)]
    /\ UNCHANGED <<students, uniqueIndex, nextId, lastId, clientVars>>

PageParams == (1..MaxPage) \cup {NaN, 0, -1}
LimitParams == (1..MaxLimit) \cup {NaN, 0, -1}
\* search texts as they arrive in the path: letters in both cases, the
\* escapes \s and \S, a lone backslash, a malformed escape, a dot, a blank
Texts == {<<"a">>, <<"A">>, <<"a", "n">>, <<"A", "N">>, <<"a", "N">>, <<"s">>, <<"S">>,
          <<"%5C", "s">>, <<"%5C", "S">>, <<"%5C">>, <<"%">>, <<".">>, <<"%20">>}

ApiList(s) ==
    /\ reqs[s].op = "none"
    /\ \E p \in PageParams, l \in LimitParams :
          reqs' = [reqs EXCEPT ![s] = Request("LIST", "reads", BadId, NoBody, <<>>, p, l)]
    /\ UNCHANGED <<students, uniqueIndex, nextId, lastId, clientVars>>

ApiSearch(s) ==
    /\ reqs[s].op = "none"
    /\ \E t \in Texts, p \in PageParams, l \in LimitParams :
          reqs' = [reqs EXCEPT ![s] = Request("SEARCH", "reads", BadId, NoBody, t, p, l)]
    /\ UNCHANGED <<students, uniqueIndex, nextId, lastId, clientVars>>

\* the response has been sent: the handler's locals are gone
Reply(s) ==
    /\ reqs[s].pc = "done"
    /\ reqs' = [reqs EXCEPT ![s] = Idle]
    /\ UNCHANGED <<students, uniqueIndex, nextId, lastId, clientVars>>

\* ------------------------------------------------------ the component App
MaxMutations == 1     \* POST, PUT and DELETE requests the operator sends
MaxEvents == 4        \* keystrokes and clicks of the operator
SeedRecords == 6      \* documents in the collection when the page is opened

NoTimer == <<"none">>
NoRead == <<"none", <<>>, 0>>
NoStudent == NoDoc
EmptyForm == [_id |-> BadId, student_id |-> <<>>, firstname |-> <<>>, lastname |-> <<>>,
              nickname |-> <<>>]
NoCall == [kind |-> "none", origin |-> "", text |-> <<>>, page |-> 0, limit |-> 0]
NoDialog == [id |-> BadId, text |-> <<>>, page |-> 0, limit |-> 0]

\* String.prototype.trim
RECURSIVE TrimStart(_)
TrimStart(t) == IF t # <<>> /\ IsSpace(Head(t)) THEN TrimStart(Tail(t)) ELSE t
RECURSIVE TrimEnd(_)
TrimEnd(t) ==
    IF t # <<>> /\ IsSpace(t[Len(t)]) THEN TrimEnd(SubSeq(t, 1, Len(t) - 1)) ELSE t
Trim(t) == TrimEnd(TrimStart(t))

EncodeChar(c) == CASE c = "\\" -> "%5C" [] c = " " -> "%20" [] c = "%" -> "%25" [] OTHER -> c
encodeURIComponent(t) == [i \in 1..Len(t) |-> EncodeChar(t[i])]

\* the request fetchStudents sends for the values its closure holds
fetchStudents(text, pg, lim) ==
    IF Trim(text) # <<>>
    THEN Request("SEARCH", "reads", BadId, NoBody, encodeURIComponent(Trim(text)), pg, lim)
    ELSE Request("LIST", "reads", BadId, NoBody, <<>>, pg, lim)

ReadOf(r) == <<r.op, r.text, r.page>>

\* the state of the hooks, as a record a handler updates
Hooks ==
    [students |-> studentList, searchText |-> searchText, isLoading |-> isLoading,
     pagination |-> pagination, formData |-> formData,
     selectedStudent |-> selectedStudent, isModalOpen |-> isModalOpen,
     debouncedSearchText |-> debouncedSearchText]

Free(r) == IF \E s \in Slots : r[s].op = "none"
           THEN CHOOSE s \in Slots : r[s].op = "none" /\ \A u \in Slots : r[u].op = "none" => s <= u
           ELSE 0

InFlight == \E s \in Slots : calls[s].kind # "none"

\* The effects that run when the component re-renders with the hooks at st:
\* the page reset (debouncedSearchText !== searchText sets page 1) and the
\* fetch trigger (a changed fetchStudents, debounced text or page calls
\* fetchStudents unless isLoading).  page is the page after the reset, read
\* the request the trigger sends or Idle.
Effects(st) ==
    LET reset == /\ (st.debouncedSearchText # debouncedSearchText
                     \/ st.searchText # searchText)
                 /\ st.debouncedSearchText # st.searchText
        changed1 == \/ st.debouncedSearchText # debouncedSearchText
                    \/ st.pagination.page # pagination.page
                    \/ st.pagination.limit # pagination.limit
        fetch1 == changed1 /\ ~st.isLoading
        page2 == IF reset THEN 1 ELSE st.pagination.page
        fetch2 == ~fetch1 /\ page2 # st.pagination.page /\ ~st.isLoading
    IN [page |-> page2,
        read |-> IF fetch1
                 THEN fetchStudents(st.debouncedSearchText, st.pagination.page,
                                    st.pagination.limit)
                 ELSE IF fetch2
                 THEN fetchStudents(st.debouncedSearchText, page2, st.pagination.limit)
                 ELSE Idle]

\* the history of reads: the burst of typing under way and the reads the
\* fetch trigger issued in it, the clearing of the search under way and the
\* first read after the debounced text became empty, and the read whose
\* answer is shown, and the slot of the read issued last
NoHist ==
    [burst |-> "none", reads |-> <<>>, final |-> <<>>,
     clear |-> "none", clearRead |-> NoRead, shown |-> NoRead, latest |-> 0]

Record(ev, st, tm, effectRead, ownRead, applied) ==
    LET idle == ~isLoading /\ ~InFlight
        issued == IF effectRead.op # "none" THEN <<ReadOf(effectRead)>> ELSE <<>>
        first == IF effectRead.op # "none" THEN ReadOf(effectRead)
                 ELSE IF ownRead.op # "none" THEN ReadOf(ownRead) ELSE NoRead
        h1 == IF applied # NoRead THEN [hist EXCEPT !.shown = applied] ELSE hist
        \* the burst
        h2 == CASE ev = "type" /\ hist.burst = "typing" ->
                     [h1 EXCEPT !.reads = @ \o issued]
                [] ev = "type" /\ hist.burst # "typing" /\ idle /\ timer = NoTimer ->
                     [h1 EXCEPT !.burst = "typing", !.reads = issued, !.final = <<>>]
                [] ev = "timer" /\ hist.burst = "typing" ->
                     IF st.debouncedSearchText # debouncedSearchText
                     THEN [h1 EXCEPT !.burst = "fired", !.reads = @ \o issued,
                                     !.final = st.debouncedSearchText]
                     ELSE [h1 EXCEPT !.burst = "none", !.reads = <<>>]
                [] ev = "response" /\ hist.burst = "typing" ->
                     [h1 EXCEPT !.reads = @ \o issued]
                [] OTHER -> [h1 EXCEPT !.burst = "none", !.reads = <<>>, !.final = <<>>]
        \* the clearing
        h3 == CASE ev = "clear" /\ idle /\ timer = NoTimer
                   /\ Trim(debouncedSearchText) # <<>> ->
                     [h2 EXCEPT !.clear = "cleared", !.clearRead = NoRead]
                [] ev = "timer" /\ hist.clear = "cleared" ->
                     IF Trim(st.debouncedSearchText) = <<>>
                     THEN [h2 EXCEPT !.clear = "emptied", !.clearRead = first]
                     ELSE [h2 EXCEPT !.clear = "none"]
                [] ev = "response" /\ hist.clear = "emptied" ->
                     [h2 EXCEPT !.clearRead = IF @ = NoRead THEN first ELSE @]
                [] ev = "response" -> h2
                [] OTHER -> [h2 EXCEPT !.clear = "none", !.clearRead = NoRead]
    IN h3

\* One step of the component: a handler (or a continuation of one, taking
\* the answer in slot s) leaves the hooks at st, the debounce timer at tm and
\* sends the request own, awaited as ownCall; the component re-renders and
\* its effects run.
Commit(ev, st, tm, s, own, ownCall, applied) ==
    LET eff == Effects(st)
        r1 == IF s = 0 THEN reqs ELSE [reqs EXCEPT ![s] = Idle]
        c1 == IF s = 0 THEN calls ELSE [calls EXCEPT ![s] = NoCall]
        o == IF own.op = "none" THEN 0 ELSE IF s # 0 THEN s ELSE Free(r1)
        r2 == IF o = 0 THEN r1 ELSE [r1 EXCEPT ![o] = own]
        c2 == IF o = 0 THEN c1 ELSE [c1 EXCEPT ![o] = ownCall]
        f == IF eff.read.op = "none" THEN 0 ELSE Free(r2)
    IN /\ own.op # "none" => o # 0
       /\ eff.read.op # "none" => f # 0
       /\ reqs' = IF f = 0 THEN r2 ELSE [r2 EXCEPT ![f] = eff.read]
       /\ calls' = IF f = 0 THEN c2
                   ELSE [c2 EXCEPT ![f] = [kind |-> "fetch", origin |-> "effect",
                                           text |-> <<>>, page |-> 0, limit |-> 0]]
       /\ studentList' = st.students
       /\ searchText' = st.searchText
       /\ isLoading' = (st.isLoading \/ eff.read.op # "none")
       /\ pagination' = [st.pagination EXCEPT !.page = eff.page]
       /\ formData' = st.formData
       /\ selectedStudent' = st.selectedStudent
       /\ isModalOpen' = st.isModalOpen
       /\ debouncedSearchText' = st.debouncedSearchText
       /\ timer' = IF st.searchText # searchText THEN st.searchText ELSE tm
       /\ ev \notin {"timer", "response"} => events < MaxEvents
       /\ events' = IF ev \in {"timer", "response"} THEN events ELSE events + 1
       /\ hist' = [Record(ev, st, tm, eff.read,
                          IF own.op \in {"LIST", "SEARCH"} THEN own ELSE Idle, applied)
                   EXCEPT !.latest = IF f # 0 THEN f
                                     ELSE IF own.op \in {"LIST", "SEARCH"} THEN o ELSE @]
       /\ UNCHANGED <<students, uniqueIndex, nextId, lastId>>

\* the page behind the modal form and the confirmation dialog is out of reach
PageReachable == ~isModalOpen /\ dialog = NoDialog

\* what the operator types into the search box
SearchInputs == {<<>>, <<"a">>, <<" ">>}

handleSearchChange(newValue) ==
    /\ PageReachable /\ newValue # searchText
    /\ Commit("type", [Hooks EXCEPT !.searchText = newValue], timer, 0, Idle, NoCall, NoRead)
    /\ UNCHANGED <<dialog, mutations>>

handleClearSearch ==
    /\ PageReachable /\ searchText # <<>>
    /\ Commit("clear", [Hooks EXCEPT !.searchText = <<>>, !.pagination.page = 1], timer,
              0, Idle, NoCall, NoRead)
    /\ UNCHANGED <<dialog, mutations>>

handleSearch ==
    /\ PageReachable /\ ~isLoading
    /\ pagination.page # 1
    /\ Commit("user", [Hooks EXCEPT !.pagination.page = 1], timer, 0, Idle, NoCall, NoRead)
    /\ UNCHANGED <<dialog, mutations>>

\* setTimeout's callback in useDebounce: setDebouncedValue(value)
DebounceTimeout ==
    /\ timer # NoTimer
    /\ Commit("timer", [Hooks EXCEPT !.debouncedSearchText = timer], NoTimer, 0, Idle,
              NoCall, NoRead)
    /\ UNCHANGED <<dialog, mutations>>

\* a page change that does not look at isLoading
PageChangeWhileLoading(newPage) ==
    /\ PageReachable
    /\ IF newPage < 1 \/ newPage > pagination.totalPages
       THEN UNCHANGED vars
       ELSE /\ newPage # pagination.page
            /\ Commit("user", [Hooks EXCEPT !.pagination.page = newPage], timer, 0, Idle,
                      NoCall, NoRead)
            /\ UNCHANGED <<dialog, mutations>>

handlePageChange(newPage) ==
    /\ PageReachable
    /\ IF newPage < 1 \/ newPage > pagination.totalPages \/ isLoading
       THEN UNCHANGED vars
       ELSE /\ newPage # pagination.page
            /\ Commit("user", [Hooks EXCEPT !.pagination.page = newPage], timer, 0, Idle,
                      NoCall, NoRead)
            /\ UNCHANGED <<dialog, mutations>>

\* fetchStudents resumes with the answer to the read in slot s, then the
\* handler that awaited it, if one did
FetchAnswered(s) ==
    /\ calls[s].kind = "fetch" /\ reqs[s].pc = "done"
    /\ LET ok == reqs[s].resp.status = 200
           st1 == IF ok THEN [Hooks EXCEPT !.students = reqs[s].resp.students,
                                           !.pagination = reqs[s].resp.pagination]
                  ELSE Hooks
           st2 == IF calls[s].origin = "submit"
                  THEN [st1 EXCEPT !.isModalOpen = FALSE, !.selectedStudent = NoStudent,
                                   !.formData = EmptyForm]
                  ELSE st1
       IN Commit("response", [st2 EXCEPT !.isLoading = FALSE], timer, s, Idle, NoCall,
                 IF ok THEN ReadOf(reqs[s]) ELSE NoRead)
    /\ UNCHANGED <<dialog, mutations>>

\* ---- the form
FormInputs ==
    {[_id |-> BadId, student_id |-> k, firstname |-> <<"b">>, lastname |-> <<>>,
      nickname |-> <<>>] : k \in {<<"1">>, <<"2", "2", "2">>}}

Closure(kind, origin) ==
    [kind |-> kind, origin |-> origin, text |-> debouncedSearchText,
     page |-> pagination.page, limit |-> pagination.limit]

\* the Add Student button
openAddModal ==
    /\ PageReachable /\ ~isLoading
    /\ Commit("user", [Hooks EXCEPT !.selectedStudent = NoStudent, !.formData = EmptyForm,
                                    !.isModalOpen = TRUE], timer, 0, Idle, NoCall, NoRead)
    /\ UNCHANGED <<dialog, mutations>>

openEditModal(student) ==
    /\ PageReachable /\ ~isLoading
    /\ Commit("user", [Hooks EXCEPT !.selectedStudent = student, !.formData = student,
                                    !.isModalOpen = TRUE], timer, 0, Idle, NoCall, NoRead)
    /\ UNCHANGED <<dialog, mutations>>

\* the onChange handlers of the form's inputs
setFormData(data) ==
    /\ isModalOpen /\ ~isLoading
    /\ [data EXCEPT !._id = formData._id] # formData
    /\ Commit("user", [Hooks EXCEPT !.formData = [data EXCEPT !._id = formData._id]],
              timer, 0, Idle, NoCall, NoRead)
    /\ UNCHANGED <<dialog, mutations>>

closeModal ==
    /\ isModalOpen /\ ~isLoading
    /\ Commit("user", [Hooks EXCEPT !.isModalOpen = FALSE], timer, 0, Idle, NoCall, NoRead)
    /\ UNCHANGED <<dialog, mutations>>

BodyOf(data) ==
    [student_id |-> data.student_id, firstname |-> data.firstname,
     lastname |-> data.lastname, nickname |-> data.nickname]

\* the form's submit button; student_id and firstname are required inputs
handleSubmit ==
    /\ isModalOpen /\ ~isLoading
    /\ formData.student_id \notin {<<>>, Absent} /\ formData.firstname \notin {<<>>, Absent}
    /\ mutations < MaxMutations
    /\ Commit("user", [Hooks EXCEPT !.isLoading = TRUE], timer, 0,
              IF selectedStudent._id # BadId
              THEN Request("PUT", "findOne", selectedStudent._id, BodyOf(formData), <<>>,
                           NaN, NaN)
              ELSE Request("POST", "findOne", BadId, BodyOf(formData), <<>>, NaN, NaN),
              Closure("mutate", "submit"), NoRead)
    /\ mutations' = mutations + 1
    /\ UNCHANGED dialog

\* ---- delete
\* a Delete button that sends the request without asking
DeleteWithoutAsking(id) ==
    /\ PageReachable /\ ~isLoading
    /\ mutations < MaxMutations
    /\ Commit("user", [Hooks EXCEPT !.isLoading = TRUE], timer, 0,
              Request("DELETE", "deleteOne", id, NoBody, <<>>, NaN, NaN),
              Closure("mutate", "delete"), NoRead)
    /\ mutations' = mutations + 1
    /\ UNCHANGED dialog

\* the Delete button of a row: handleDelete awaits the confirmation dialog
handleDelete(id) ==
    /\ PageReachable /\ ~isLoading
    /\ mutations < MaxMutations /\ events < MaxEvents
    /\ dialog' = [id |-> id, text |-> debouncedSearchText, page |-> pagination.page,
                  limit |-> pagination.limit]
    /\ events' = events + 1
    /\ hist' = [hist EXCEPT !.burst = "none", !.reads = <<>>, !.final = <<>>,
                            !.clear = "none", !.clearRead = NoRead]
    /\ UNCHANGED <<serverVars, studentList, searchText, isLoading, pagination, formData,
                   selectedStudent, isModalOpen, debouncedSearchText, timer, calls,
                   mutations>>

\* result.isConfirmed
confirmDelete ==
    /\ dialog # NoDialog
    /\ Commit("user", [Hooks EXCEPT !.isLoading = TRUE], timer, 0,
              Request("DELETE", "deleteOne", dialog.id, NoBody, <<>>, NaN, NaN),
              [kind |-> "mutate", origin |-> "delete", text |-> dialog.text,
               page |-> dialog.page, limit |-> dialog.limit], NoRead)
    /\ dialog' = NoDialog
    /\ mutations' = mutations + 1

declineDelete ==
    /\ dialog # NoDialog /\ events < MaxEvents
    /\ dialog' = NoDialog
    /\ events' = events + 1
    /\ UNCHANGED <<serverVars, studentList, searchText, isLoading, pagination, formData,
                   selectedStudent, isModalOpen, debouncedSearchText, timer, calls,
                   mutations, hist>>

\* handleSubmit or handleDelete resumes with the answer to its POST, PUT or
\* DELETE in slot s: on success it awaits fetchStudents(), on failure it shows
\* the error and clears isLoading
\* a mutation whose catch path leaves the busy flag as it is
MutationNoFinally(s) ==
    /\ calls[s].kind = "mutate" /\ reqs[s].pc = "done"
    /\ IF reqs[s].resp.status = 200
       THEN Commit("response", [Hooks EXCEPT !.isLoading = TRUE], timer, s,
                   fetchStudents(calls[s].text, calls[s].page, calls[s].limit),
                   [calls[s] EXCEPT !.kind = "fetch"], NoRead)
       ELSE Commit("response", Hooks, timer, s, Idle, NoCall, NoRead)
    /\ UNCHANGED <<dialog, mutations>>

MutationAnswered(s) ==
    /\ calls[s].kind = "mutate" /\ reqs[s].pc = "done"
    /\ IF reqs[s].resp.status = 200
       THEN Commit("response", [Hooks EXCEPT !.isLoading = TRUE], timer, s,
                   fetchStudents(calls[s].text, calls[s].page, calls[s].limit),
                   [calls[s] EXCEPT !.kind = "fetch"], NoRead)
       ELSE Commit("response", [Hooks EXCEPT !.isLoading = FALSE], timer, s, Idle, NoCall,
                   NoRead)
    /\ UNCHANGED <<dialog, mutations>>

\* ---------------------------------------------------------- specifications
\* the component as useState leaves it, before it is mounted
Unmounted ==
    /\ studentList = <<>>
    /\ searchText = <<>>
    /\ isLoading = FALSE
    /\ pagination = [total |-> 0, page |-> 1, limit |-> 5, totalPages |-> 0]
    /\ formData = EmptyForm
    /\ selectedStudent = NoStudent
    /\ isModalOpen = FALSE
    /\ debouncedSearchText = <<>>
    /\ timer = NoTimer
    /\ dialog = NoDialog
    /\ calls = [s \in Slots |-> NoCall]
    /\ mutations = 0
    /\ events = 0
    /\ hist = NoHist

\* the service starts on an empty collection; no page is open
Init ==
    /\ students = <<>>
    /\ uniqueIndex = "pending"
    /\ nextId = 1
    /\ lastId = MaxId
    /\ reqs = [s \in Slots |-> Idle]
    /\ Unmounted

Next ==
    \/ createIndexes
    \/ \E s \in Slots : Writes(s)
    \/ \E s \in Slots : ApiPost(s)
    \/ \E s \in Slots : ApiPut(s)
    \/ \E s \in Slots : ApiDelete(s)
    \/ \E s \in Slots : Reply(s)

Spec == Init /\ [][Next]_vars

\* ------------------------------------------- the read routes on their own
\* A collection of n documents as earlier requests left it.
RECURSIVE Key(_)
Key(i) == IF i = 0 THEN <<>>
          ELSE Key((i - 1) \div 2) \o <<(IF i % 2 = 1 THEN "1" ELSE "2")>>
First(i) == CASE i % 3 = 1 -> <<"A", "n", "n", "e">>
              [] i % 3 = 2 -> <<"s", "a", " ", "n">>
              [] OTHER -> <<"a", "n">>
Stored(n) ==
    [i \in 1..n |-> Doc(i, [student_id |-> Key(i), firstname |-> First(i),
                            lastname |-> (IF i % 2 = 0 THEN Absent ELSE <<"S", "a">>),
                            nickname |-> <<>>])]

InitQuery ==
    /\ \E n \in 0..MaxRecords : students = Stored(n) /\ nextId = n + 1 /\ lastId = n
    /\ uniqueIndex = "created"
    /\ reqs = [s \in Slots |-> Idle]
    /\ Unmounted

NextQuery ==
    \/ ApiList(1)
    \/ ApiSearch(1)
    \/ Find(1)
    \/ CountDocuments(1)
    \/ Reply(1)

SpecQuery == InitQuery /\ [][NextQuery]_vars

\* ------------------------------------------ the create route on its own
\* creates only, among them creates without a usable firstname
NextCreate ==
    \/ createIndexes
    \/ \E s \in Slots : ApiPost(s)
    \/ \E s \in Slots : ApiPostUnnamed(s)
    \/ \E s \in Slots : PostFindOne(s)
    \/ \E s \in Slots : PostInsertOne(s)
    \/ \E s \in Slots : Reply(s)

SpecCreate == Init /\ [][NextCreate]_vars

\* ------------------------------------------ the update route on its own
\* updates of a collection whose records carry a lastname, by bodies that
\* omit it
SeedUpdate == 2
InitUpdate ==
    /\ students = Stored(SeedUpdate) /\ nextId = SeedUpdate + 1 /\ lastId = SeedUpdate
    /\ uniqueIndex = "created"
    /\ reqs = [s \in Slots |-> Idle]
    /\ Unmounted

NextUpdate ==
    \/ \E s \in Slots : ApiPut(s)
    \/ \E s \in Slots : PutFindOne(s)
    \/ \E s \in Slots : PutUpdateOne(s)
    \/ \E s \in Slots : Reply(s)

SpecUpdate == InitUpdate /\ [][NextUpdate]_vars

\* ------------------------------------------- the page against the service
\* mounting runs the effects once: the debounce timer is armed with '' and
\* the fetch trigger sends the first list read
InitClient ==
    /\ students = Stored(SeedRecords)
    /\ nextId = SeedRecords + 1
    /\ lastId = SeedRecords + MaxMutations
    /\ uniqueIndex = "created"
    /\ reqs = [s \in Slots |-> IF s = 1 THEN fetchStudents(<<>>, 1, 5) ELSE Idle]
    /\ studentList = <<>>
    /\ searchText = <<>>
    /\ isLoading = TRUE
    /\ pagination = [total |-> 0, page |-> 1, limit |-> 5, totalPages |-> 0]
    /\ formData = EmptyForm
    /\ selectedStudent = NoStudent
    /\ isModalOpen = FALSE
    /\ debouncedSearchText = <<>>
    /\ timer = <<>>
    /\ dialog = NoDialog
    /\ calls = [s \in Slots |-> IF s = 1 THEN [NoCall EXCEPT !.kind = "fetch",
                                                             !.origin = "effect"]
                                ELSE NoCall]
    /\ mutations = 0
    /\ events = 0
    /\ hist = [NoHist EXCEPT !.latest = 1]

PageArgs == (-1)..(MaxPage + 1)
\* the rows whose Edit and Delete buttons the operator uses
Rows == IF studentList = <<>> THEN {} ELSE {1}

NextClient ==
    \/ \E v \in SearchInputs : handleSearchChange(v)
    \/ handleClearSearch
    \/ handleSearch
    \/ DebounceTimeout
    \/ \E n \in PageArgs : handlePageChange(n)
    \/ openAddModal
    \/ \E i \in Rows : openEditModal(studentList[i])
    \/ \E d \in FormInputs : setFormData(d)
    \/ closeModal
    \/ handleSubmit
    \/ \E i \in Rows : handleDelete(studentList[i]._id)
    \/ confirmDelete
    \/ declineDelete
    \/ \E s \in Slots : FetchAnswered(s)
    \/ \E s \in Slots : MutationAnswered(s)
    \/ \E s \in Slots : Writes(s)
    \/ \E s \in Slots : Reads(s)

SpecClient == InitClient /\ [][NextClient]_vars

\* ------------------------------------------------------------------ claims
\* what a read request answers when both of its reads see the collection docs
ReadResult(r, docs) ==
    IF ReadError(r) # "" THEN ErrorResponse(400, ReadError(r))
    ELSE Response(200, "", NoDoc, SkipLimit(Matching(r, docs), skip(r), limit(r)),
                  Pagination(r, Len(Matching(r, docs))))

Stepped(s) == reqs'[s] # reqs[s]
InDocs(doc, docs) == \E i \in 1..Len(docs) : docs[i] = doc

\* C1: no two stored records have the same student_id, whatever the
\* interleaving of the create, update and delete requests.
C1_UniqueStudentId == UniqueKeys(students)

\* C2: a create whose lookup finds a record with the same student_id answers
\* 400 'Student ID already exists' and leaves the collection as it was.
C2_DuplicateCreateRejected ==
    [][\A s \in Slots :
         (/\ reqs[s].op = "POST" /\ reqs[s].pc = "findOne" /\ Stepped(s)
          /\ HasKey(students, reqs[s].body.student_id))
         => /\ reqs'[s].pc = "done"
            /\ reqs'[s].resp.status = 400
            /\ reqs'[s].resp.message = "Student ID already exists"
            /\ students' = students]_vars

C2_Witness ==
    \E s \in Slots :
       /\ reqs[s].op = "POST" /\ reqs[s].pc = "done"
       /\ reqs[s].resp.message = "Student ID already exists"
       /\ HasKey(students, reqs[s].body.student_id)
       /\ Len(students) = MaxId

\* C3: an update of an existing record R is rejected with the conflict
\* error, the collection unchanged, when a record with another id holds the
\* replacement student_id; when the replacement student_id is R's own and no
\* other record holds it, the update passes the lookup and the write succeeds.
OwnKey(r) ==
    /\ r.op = "PUT" /\ HasId(students, r.id)
    /\ \E i \in 1..Len(students) :
          students[i]._id = r.id /\ students[i].student_id = r.body.student_id
    /\ ~HasKeyOther(students, r.body.student_id, r.id)

C3_UpdateKeyCheck ==
    [][\A s \in Slots :
         /\ (/\ reqs[s].op = "PUT" /\ reqs[s].pc = "findOne" /\ Stepped(s)
             /\ HasId(students, reqs[s].id)
             /\ HasKeyOther(students, reqs[s].body.student_id, reqs[s].id))
            => /\ reqs'[s].pc = "done"
               /\ reqs'[s].resp.status = 400
               /\ reqs'[s].resp.message = "Student ID already exists"
               /\ students' = students
         /\ (reqs[s].pc = "findOne" /\ Stepped(s) /\ OwnKey(reqs[s]))
            => reqs'[s].pc = "updateOne"
         /\ (reqs[s].pc = "updateOne" /\ Stepped(s) /\ OwnKey(reqs[s]))
            => /\ reqs'[s].pc = "done"
               /\ reqs'[s].resp.status = 200
               /\ reqs'[s].resp.student._id = reqs[s].id
               /\ \E i \in 1..Len(students') :
                     /\ students'[i]._id = reqs[s].id
                     /\ students'[i].student_id = reqs[s].body.student_id
                     /\ students'[i].firstname = reqs[s].body.firstname]_vars

\* both cases have happened: a rejected and an accepted update of stored records
C3_Witness ==
    /\ \E s \in Slots :
          /\ reqs[s].op = "PUT" /\ reqs[s].pc = "done" /\ reqs[s].resp.status = 400
          /\ HasId(students, reqs[s].id)
          /\ HasKeyOther(students, reqs[s].body.student_id, reqs[s].id)
    /\ \E s \in Slots :
          /\ reqs[s].pc = "done" /\ reqs[s].resp.status = 200 /\ OwnKey(reqs[s])
          /\ \E i \in 1..Len(students) :
                students[i]._id = reqs[s].id /\ students[i].firstname = <<"b">>

\* C4: a delete of an ObjectId no stored record has answers with the
\* not-found error and leaves the collection unchanged; a delete of a stored
\* id removes that record and no other, the record never comes back, and the
\* answer is the confirmation message without the record.
C4_Delete ==
    [][\A s \in Slots :
         (reqs[s].op = "DELETE" /\ reqs[s].pc = "deleteOne" /\ Stepped(s))
         => /\ reqs'[s].pc = "done"
            /\ ~HasId(students, reqs[s].id)
               => /\ reqs'[s].resp.status >= 400
                  /\ reqs[s].id # BadId
                     => reqs'[s].resp.message = "Can't find this student to delete."
                  /\ students' = students
            /\ HasId(students, reqs[s].id)
               => /\ Len(students') = Len(students) - 1
                  /\ ~HasId(students', reqs[s].id)
                  /\ \A i \in 1..Len(students) :
                        students[i]._id # reqs[s].id => InDocs(students[i], students')
                  /\ reqs'[s].resp.status = 200
                  /\ reqs'[s].resp.message = "Student deleted successfully"
                  /\ reqs'[s].resp.student = NoDoc
         /\ \A id \in 1..MaxId :
               (id < nextId /\ ~HasId(students, id)) => ~HasId(students', id)]_vars

\* a delete has removed one of two records, and a delete of a missing id failed
C4_Witness ==
    /\ Len(students) = 1 /\ nextId = 3
    /\ \E s \in Slots :
          /\ reqs[s].op = "DELETE" /\ reqs[s].pc = "done"
          /\ reqs[s].resp.message = "Student deleted successfully"
    /\ \E s \in Slots :
          /\ reqs[s].op = "DELETE" /\ reqs[s].pc = "done"
          /\ reqs[s].resp.message = "Can't find this student to delete."

\* C5: a list or search request with page >= 1 and limit > 0 answers with at
\* most limit records and totalPages = ceil(total / limit); 12 records with
\* limit 5 give the first five records on page 1 and totalPages = 3.
ValidRead(r) ==
    /\ r.op \in {"LIST", "SEARCH"} /\ r.pc = "done" /\ r.resp.status = 200
    /\ r.page >= 1 /\ r.limit > 0

C5_PageSize ==
    \A s \in Slots :
       ValidRead(reqs[s]) =>
          LET pg == reqs[s].resp.pagination IN
          /\ Len(reqs[s].resp.students) <= reqs[s].limit
          /\ pg.limit = reqs[s].limit /\ pg.page = reqs[s].page
          /\ pg.totalPages * pg.limit >= pg.total
          /\ (pg.totalPages - 1) * pg.limit < pg.total
          /\ pg.totalPages >= 0
          /\ (reqs[s].op = "LIST" /\ Len(students) = 12 /\ reqs[s].limit = 5
               /\ reqs[s].page = 1)
             => /\ reqs[s].resp.students = SubSeq(students, 1, 5)
                /\ pg.totalPages = 3 /\ pg.total = 12

C5_Witness ==
    \E s \in Slots :
       /\ ValidRead(reqs[s]) /\ reqs[s].op = "LIST" /\ Len(students) = 12
       /\ reqs[s].limit = 5 /\ reqs[s].page = 1 /\ Len(reqs[s].resp.students) = 5

\* C8: a search answers the same records and the same total for a query and
\* for every case variation of it.
LowerToken(t) == IF t = "%5C" THEN t ELSE Lower(t)
CaseVariants(q) ==
    {v \in Texts : Len(v) = Len(q) /\ \A i \in 1..Len(q) : LowerToken(v[i]) = LowerToken(q[i])}

C8_CaseInsensitive ==
    \A s \in Slots :
       (reqs[s].op = "SEARCH" /\ reqs[s].pc = "done" /\ reqs[s].resp.status = 200)
       => \A v \in CaseVariants(reqs[s].text) :
             LET other == ReadResult([reqs[s] EXCEPT !.text = v], students) IN
             /\ other.students = reqs[s].resp.students
             /\ other.pagination.total = reqs[s].resp.pagination.total

\* C9: right after a successful create, some page 1..totalPages of the
\* listing holds a record with the fields supplied and the id the create
\* returned, which is an ObjectId.
ListRequest(p, l) == Request("LIST", "reads", BadId, NoBody, <<>>, p, l)

C9_RoundTrip ==
    [][\A s \in Slots :
         (/\ reqs[s].op = "POST" /\ reqs[s].pc = "insertOne" /\ Stepped(s)
          /\ reqs'[s].resp.status = 200)
         => \A l \in 1..MaxLimit :
               LET tp == ReadResult(ListRequest(1, l), students').pagination.totalPages
                   b == reqs[s].body
                   id == reqs'[s].resp.student._id
               IN /\ id # BadId
                  /\ reqs'[s].resp.student = Doc(id, b)
                  /\ \E p \in 1..tp :
                        InDocs(Doc(id, b), ReadResult(ListRequest(p, l), students').students)
                  /\ \A p \in 1..(tp + 1) : \A d \in 1..Len(students) :
                        InDocs(students[d], ReadResult(ListRequest(p, l), students').students)
                        => students[d]._id # id]_vars

\* a second record has been created: with limit 1 it is on page 2
C9_Witness ==
    \E s \in Slots :
       /\ reqs[s].op = "POST" /\ reqs[s].pc = "done" /\ reqs[s].resp.status = 200
       /\ Len(students) = 2 /\ students[2] = reqs[s].resp.student

\* C6: handlePageChange(n) with n < 1, n > totalPages or isLoading changes
\* nothing and sends nothing; hence no step of the operator moves the page
\* anywhere but to 1 (the resets) or, when not loading, into 1..totalPages.
C6_PageChangeRejected ==
    [][/\ \A n \in PageArgs :
            ((n < 1 \/ n > pagination.totalPages \/ isLoading) /\ handlePageChange(n))
            => UNCHANGED vars
       /\ (events' # events /\ pagination'.page # pagination.page)
          => \/ pagination'.page = 1
             \/ ~isLoading /\ pagination'.page \in 1..pagination.totalPages]_vars

\* the page buttons are shown and a read is in flight: every click on them
\* is rejected
C6_Witness ==
    /\ PageReachable /\ isLoading /\ InFlight
    /\ pagination.totalPages = 2 /\ pagination.page = 2

\* C7: a burst of search-text changes results in exactly one read, carrying
\* the final text.  Stated for the bursts that begin with no request in
\* flight, that no other action of the operator interrupts and that change
\* the debounced text: when the quiet period ends, the fetch trigger has
\* issued one read since the burst began, the one for the final text.
C7_OneReadPerBurst ==
    hist.burst = "fired"
    => /\ Len(hist.reads) = 1
       /\ hist.reads[1][1] = fetchStudents(hist.final, 1, 5).op
       /\ hist.reads[1][2] = fetchStudents(hist.final, 1, 5).text

\* C10: after the search is cleared (from a settled search, with no other
\* action of the operator), the first read issued once the debounced text is
\* empty is a list read of page 1, and the component settles on that list
\* with pagination.page = 1.
Settled == ~isLoading /\ ~InFlight /\ timer = NoTimer

C10_ClearSettlesOnList ==
    hist.clear = "emptied"
    => /\ hist.clearRead # NoRead => (hist.clearRead[1] = "LIST" /\ hist.clearRead[3] = 1)
       /\ Settled => /\ hist.shown[1] = "LIST" /\ hist.shown[3] = 1
                     /\ pagination.page = 1

\* C11: an update of a well-formed id no record has checks the key first:
\* when some record holds the replacement student_id the lookup answers the
\* 400 conflict; when none does the lookup passes, and the write, finding no
\* record, answers 404 'Student not found'; the collection is unchanged.
MissingId(r) == r.op = "PUT" /\ r.id # BadId /\ ~HasId(students, r.id)

C11_UniquenessBeforeExistence ==
    [][\A s \in Slots :
         /\ (reqs[s].pc = "findOne" /\ Stepped(s) /\ MissingId(reqs[s])
             /\ HasKey(students, reqs[s].body.student_id))
            => /\ reqs'[s].pc = "done"
               /\ reqs'[s].resp.status = 400
               /\ reqs'[s].resp.message = "Student ID already exists"
               /\ students' = students
         /\ (reqs[s].pc = "findOne" /\ Stepped(s) /\ MissingId(reqs[s])
             /\ ~HasKey(students, reqs[s].body.student_id))
            => reqs'[s].pc = "updateOne" /\ students' = students
         /\ (reqs[s].pc = "updateOne" /\ Stepped(s) /\ MissingId(reqs[s]))
            => /\ reqs'[s].pc = "done"
               /\ reqs'[s].resp.status = 404
               /\ reqs'[s].resp.message = "Student not found"
               /\ students' = students]_vars

\* both answers have been given for ids the collection does not hold
C11_Witness ==
    /\ students # <<>>
    /\ \E s \in Slots :
          /\ MissingId(reqs[s]) /\ reqs[s].pc = "done" /\ reqs[s].resp.status = 404
          /\ ~HasKey(students, reqs[s].body.student_id)
    /\ \E s \in Slots :
          /\ MissingId(reqs[s]) /\ reqs[s].pc = "done" /\ reqs[s].resp.status = 400
          /\ reqs[s].resp.message = "Student ID already exists"
          /\ HasKey(students, reqs[s].body.student_id)

\* C12: a successful update is a full replace: afterwards the record with
\* the target id holds exactly the four fields of the replacement (a field
\* the replacement omits is absent), no other record has changed, and the
\* answer is that record.
C12_FullReplace ==
    [][\A s \in Slots :
         (/\ reqs[s].op = "PUT" /\ reqs[s].pc = "updateOne" /\ Stepped(s)
          /\ reqs'[s].resp.status = 200)
         => /\ Len(students') = Len(students)
            /\ \A i \in 1..Len(students) :
                  IF students[i]._id = reqs[s].id
                  THEN /\ students'[i] = Doc(reqs[s].id, reqs[s].body)
                       /\ reqs'[s].resp.student = students'[i]
                  ELSE students'[i] = students[i]]_vars

\* C13: a create whose firstname is absent or empty is answered with a
\* validation failure, which is not the duplicate-key conflict, and stores
\* nothing.
C13_FirstnameRequired ==
    [][\A s \in Slots :
         (/\ reqs[s].op = "POST" /\ Stepped(s) /\ reqs'[s].pc = "done"
          /\ reqs[s].body.firstname \in {Absent, <<>>})
         => /\ reqs'[s].resp.status = 400
            /\ reqs'[s].resp.message # "Student ID already exists"
            /\ students' = students]_vars

\* C14: each failing operation reports its kind by status: a duplicate
\* student_id is answered 400, an update or a delete of a well-formed id no
\* record has is answered 404, every failure carries a message, and no
\* failure has another status than 400, 404 or 500.
C14_StatusByKind ==
    [][\A s \in Slots :
         (Stepped(s) /\ reqs'[s].pc = "done")
         => LET r == reqs[s]
                resp == reqs'[s].resp
            IN /\ resp.status \in {200, 400, 404, 500}
               /\ resp.status # 200 => resp.message # ""
               /\ (r.op = "POST" /\ r.pc = "findOne") => resp.status = 400
               /\ (r.op = "PUT" /\ r.pc = "findOne" /\ r.id # BadId) => resp.status = 400
               /\ (r.op = "PUT" /\ r.pc = "updateOne" /\ ~HasId(students, r.id))
                  => resp.status = 404
               /\ (r.op = "DELETE" /\ r.id # BadId /\ ~HasId(students, r.id))
                  => resp.status = 404]_vars

\* C15: an id is assigned at creation and never changes: every step leaves
\* the ids of the records it keeps as they were, an update changes no id, and
\* a new record gets an id that no record, stored or deleted, has had.
IdsOf(docs) == [i \in 1..Len(docs) |-> docs[i]._id]

C15_IdImmutable ==
    [][/\ \A i \in 1..Len(students) : students[i]._id \in 1..(nextId - 1)
       /\ nextId' >= nextId
       /\ \A i \in 1..Len(students') :
             \/ HasId(students, students'[i]._id)
             \/ students'[i]._id \in nextId..(nextId' - 1)
       /\ \A i, j \in 1..Len(students') :
             students'[i]._id = students'[j]._id => i = j
       /\ \A s \in Slots :
             (reqs[s].op = "PUT" /\ Stepped(s)) => IdsOf(students') = IdsOf(students)]_vars

\* the first record has been deleted and the last one created has been updated
C15_Witness ==
    /\ IdsOf(students) = <<MaxId>> /\ nextId = MaxId + 1
    /\ \E s \in Slots :
          /\ reqs[s].op = "PUT" /\ reqs[s].pc = "done" /\ reqs[s].resp.status = 200
          /\ reqs[s].id = MaxId /\ students[1].firstname = reqs[s].body.firstname

\* C16: whenever the component is idle (isLoading false, no request in
\* flight) and pagination.totalPages > 0, 1 <= pagination.page <= totalPages.
C16_SettledPagination ==
    (~isLoading /\ ~InFlight /\ pagination.totalPages > 0)
    => pagination.page \in 1..pagination.totalPages

\* C17: every read fetchStudents issues is the one its decision gives for the
\* debounced text, page and limit of the component at that moment: a search
\* for the trimmed, escaped text when the trimmed text is not empty, and a
\* list read otherwise.
Issued(s) ==
    /\ reqs'[s].op \in {"LIST", "SEARCH"} /\ reqs'[s].pc = "reads"
    /\ ~reqs'[s].gotDocs /\ reqs'[s].total < 0
    /\ ~(reqs[s].op \in {"LIST", "SEARCH"} /\ reqs[s].pc = "reads")

C17_FetchDecision ==
    [][\A s \in Slots :
         Issued(s)
         => /\ reqs'[s] = fetchStudents(debouncedSearchText', pagination'.page,
                                       pagination'.limit)
            /\ Trim(debouncedSearchText') = <<>> <=> reqs'[s].op = "LIST"
            /\ reqs'[s].op = "SEARCH"
               => reqs'[s].text = encodeURIComponent(Trim(debouncedSearchText'))]_vars

\* C18: no trigger is dropped or duplicated: a step that changes the
\* debounced text, an accepted page change and a successful mutation each
\* issue exactly one read, the one for the resulting debounced text and page,
\* also while another request is in flight.
Trigger ==
    \/ debouncedSearchText' # debouncedSearchText
    \/ events' # events /\ ~isLoading /\ pagination'.page # pagination.page
    \/ \E s \in Slots : /\ calls[s].kind = "mutate" /\ calls'[s] # calls[s]
                         /\ reqs[s].pc = "done" /\ reqs[s].resp.status = 200

C18_TriggersNotDropped ==
    [][Trigger
       => /\ Cardinality({s \in Slots : Issued(s)}) = 1
          /\ \A s \in Slots :
                Issued(s) => reqs'[s] = fetchStudents(debouncedSearchText', pagination'.page,
                                                     pagination'.limit)]_vars

\* C19: whenever the debounced text changes, the page is reset to 1, and a
\* read issued for the new text has page 1, whatever page changes were made
\* since the keystroke.
C19_PageResetOnQueryChange ==
    [][debouncedSearchText' # debouncedSearchText
       => /\ pagination'.page = 1
          /\ \A s \in Slots : Issued(s) => reqs'[s].page = 1]_vars

\* C20: while a read or a mutation the component has issued awaits its
\* answer, isLoading is true.
C20_BusyWhileInFlight == InFlight => isLoading

\* C21: the answer to a read that is no longer the read issued last does
\* not overwrite the records and the pagination shown.
Answered(s) == calls[s].kind = "fetch" /\ reqs[s].pc = "done" /\ reqs'[s] # reqs[s]

C21_StaleDiscarded ==
    [][\A s \in Slots :
         (Answered(s) /\ hist.latest # s)
         => /\ studentList' = studentList
            /\ pagination'.total = pagination.total
            /\ pagination'.totalPages = pagination.totalPages]_vars

\* C22: when the answer to a create, update or delete arrives, a success is
\* followed by exactly one read, the one for the component's debounced text
\* and page; a failure issues no read and leaves the records, the pagination,
\* the search text and the open form as they were.
MutationDone(s) == calls[s].kind = "mutate" /\ reqs[s].pc = "done" /\ reqs'[s] # reqs[s]

C22_MutationEffects ==
    [][\A s \in Slots :
         MutationDone(s)
         => IF reqs[s].resp.status = 200
            THEN /\ Cardinality({u \in Slots : Issued(u)}) = 1
                 /\ \A u \in Slots :
                       Issued(u) => reqs'[u] = fetchStudents(debouncedSearchText, pagination.page,
                                                            pagination.limit)
            ELSE /\ \A u \in Slots : ~Issued(u)
                 /\ studentList' = studentList /\ pagination' = pagination
                 /\ searchText' = searchText /\ formData' = formData
                 /\ isModalOpen' = isModalOpen]_vars

\* C23: a DELETE request is sent only by the confirmation of the dialog, for
\* the record the dialog is about; opening the dialog and declining it send
\* nothing and leave the records, the pagination and isLoading as they were.
C23_DeleteGate ==
    [][/\ \A s \in Slots :
            (reqs'[s].op = "DELETE" /\ reqs[s].op # "DELETE")
            => /\ dialog # NoDialog /\ dialog' = NoDialog
               /\ reqs'[s].id = dialog.id
       /\ (dialog' # dialog /\ mutations' = mutations)
          => /\ reqs' = reqs /\ calls' = calls
             /\ studentList' = studentList /\ pagination' = pagination
             /\ isLoading' = isLoading]_vars

\* the operator has confirmed: the DELETE for the first row is in flight
C23_Witness ==
    /\ dialog = NoDialog /\ studentList # <<>>
    /\ \E s \in Slots :
          /\ reqs[s].op = "DELETE" /\ reqs[s].id = studentList[1]._id
          /\ calls[s].kind = "mutate" /\ calls[s].origin = "delete"

\* C24: a search answers exactly the records one of whose four fields
\* contains the decoded query as a literal substring, compared without
\* regard to case, whatever characters the query holds.
Contains(field, q) ==
    /\ field # Absent
    /\ \E i \in 0..(Len(field) - Len(q)) :
          \A k \in 1..Len(q) : Lower(field[i + k]) = Lower(q[k])

RECURSIVE Literal(_, _)
Literal(docs, q) ==
    IF docs = <<>> THEN <<>>
    ELSE (IF \/ Contains(Head(docs).student_id, q) \/ Contains(Head(docs).firstname, q)
             \/ Contains(Head(docs).lastname, q) \/ Contains(Head(docs).nickname, q)
          THEN <<Head(docs)>> ELSE <<>>) \o Literal(Tail(docs), q)

C24_LiteralSubstring ==
    \A s \in Slots :
       (/\ reqs[s].op = "SEARCH" /\ reqs[s].pc = "done"
        /\ decodeURIComponent(reqs[s].text) # URIError /\ skip(reqs[s]) >= 0)
       => LET r == reqs[s]
              found == Literal(students, decodeURIComponent(r.text))
          IN /\ r.resp.status = 200
             /\ r.resp.students = SkipLimit(found, skip(r), limit(r))
             /\ r.resp.pagination.total = Len(found)

\* C25: a search whose decoded query is empty or only whitespace answers
\* what the list route answers for the same page and limit.
C25_BlankSearchIsList ==
    \A s \in Slots :
       (/\ reqs[s].op = "SEARCH" /\ reqs[s].pc = "done"
        /\ decodeURIComponent(reqs[s].text) # URIError
        /\ Trim(decodeURIComponent(reqs[s].text)) = <<>>)
       => reqs[s].resp = ReadResult(ListRequest(reqs[s].page, reqs[s].limit), students)

\* C26: list and search use page 1 when the page parameter is absent or
\* invalid (non-numeric, zero, negative) and limit 10 when the limit parameter
\* is absent or invalid, and skip (page - 1) * limit records; the skip is
\* never negative and the limit is always positive.
C26_PagingDefaults ==
    \A s \in Slots :
       reqs[s].op \in {"LIST", "SEARCH"}
       => LET r == reqs[s] IN
          /\ (r.page < 1 => page(r) = 1)
          /\ (r.limit < 1 => limit(r) = 10)
          /\ skip(r) = (page(r) - 1) * limit(r)
          /\ skip(r) >= 0
          /\ limit(r) > 0

\* C27: on a collection that is not mutated, the pages 1..totalPages of a
\* list or search with a fixed limit partition the matching records: every
\* matching record is on exactly one page, page p holds
\* min(limit, total - (p - 1) * limit) records, a page beyond totalPages is
\* empty, and the answered page is the page of that partition.
PageOf(r, p) == ReadResult([r EXCEPT !.page = p], students).students

C27_PagesPartition ==
    \A s \in Slots :
       (/\ reqs[s].op \in {"LIST", "SEARCH"} /\ reqs[s].pc = "done"
        /\ reqs[s].resp.status = 200)
       => LET r == reqs[s]
              m == Matching(r, students)
              l == limit(r)
              tp == r.resp.pagination.totalPages
          IN /\ r.resp.students = PageOf(r, page(r))
             /\ \A i \in 1..Len(m) :
                   Cardinality({p \in 1..tp : InDocs(m[i], PageOf(r, p))}) = 1
             /\ \A p \in 1..tp : Len(PageOf(r, p)) = Min(l, Len(m) - (p - 1) * l)
             /\ page(r) > tp => r.resp.students = <<>>

\* C28: a successful create adds exactly one record and changes no existing
\* one; a successful delete removes exactly one record and changes no other;
\* a successful update leaves the count unchanged; every other step of a
\* request (list, search, a lookup, a rejected create, update or delete)
\* leaves the collection unchanged.
Succeeds(s, op) ==
    /\ reqs[s].op = op /\ Stepped(s)
    /\ reqs'[s].pc = "done" /\ reqs'[s].resp.status = 200

C29_BusyReleased == ~InFlight => ~isLoading

\* a mutation has been answered, and nothing is pending
C29_Witness == mutations >= 1 /\ ~InFlight /\ ~isLoading

\* C30: the page never has two requests outstanding: in every reachable
\* state at most one read or mutation it issued is awaiting its answer.
Outstanding == {s \in Slots : calls[s].kind # "none"}

C30_OneOutstanding == Cardinality(Outstanding) <= 1

====
